---- MODULE Spec2Model ----
(***************************************************************************)
(* A model of OpenLEGO's XMLComponent (openlego/core/xml_component.py):    *)
(* the adapter that exposes a discipline's XML in/out/partials files as    *)
(* OpenMDAO variables.                                                      *)
(*                                                                         *)
(* An XML document is modelled by what xml_to_dict() yields for it: a      *)
(* function from the XPaths of its leaf elements to their values.  An      *)
(* XPath and a parameter name are strings, modelled as sequences of        *)
(* tokens (one token per delimiter, element name or list index).           *)
(***************************************************************************)
EXTENDS Integers, Sequences, FiniteSets, TLC

(***************************************************************************)
(* Bounds of the model.                                                    *)
(***************************************************************************)
\* longest list of params, values or aliases given to xml_params_as_indep_vars()
MaxArgs == 2
\* largest list index of an indexed element in a template (/r/z[1] ..)
MaxIndex == 1
\* values a framework vector or a file written by a discipline may hold
MaxVal == 2

Vals == 1..MaxVal
\* the value every template file carries for its elements: a float that is
\* not NaN, so that setup() adds every variable as a continuous one
TemplateVals == {0}

(***************************************************************************)
(* XPaths and parameter names.                                             *)
(***************************************************************************)
Elem(name) == <<"/", name>>
ElemAt(name, i) == <<"/", name, "[", ToString(i), "]">>

\* input elements of the templates: /r/x and the list /r/z[1], /r/z[2], ..
InPaths == {Elem("r") \o Elem("x")} \cup {Elem("r") \o ElemAt("z", i) : i \in 1..MaxIndex}
\* output elements of the templates: /r/y and /r/g[1]
OutPaths == {Elem("r") \o Elem("y"), Elem("r") \o ElemAt("g", 1)}
\* an element no template of the component has: /r/q
ForeignPath == Elem("r") \o Elem("q")

\* mutant: the list index is dropped from the name
xpath_to_param_noindex(xpath) ==
    LET keep(k) == /\ xpath[k] # "[" /\ xpath[k] # "]"
                   /\ (k > 1 => xpath[k - 1] # "[")
        R[k \in 0..Len(xpath)] ==
            IF k = 0 THEN <<>>
            ELSE IF keep(k) THEN R[k - 1] \o <<IF xpath[k] = "/" THEN ":" ELSE xpath[k]>>
            ELSE R[k - 1]
    IN  R[Len(xpath)]

\* xpath_to_param(): the segments and list indices of the XPath joined into
\* one token: '/' becomes ':', '[' becomes '(' and ']' becomes ')'.
xpath_to_param(xpath) ==
    [k \in 1..Len(xpath) |->
        CASE xpath[k] = "/" -> ":"
          [] xpath[k] = "[" -> "("
          [] xpath[k] = "]" -> ")"
          [] OTHER -> xpath[k]]

\* param_to_xpath(): the inverse replacement.
param_to_xpath(param) ==
    [k \in 1..Len(param) |->
        CASE param[k] = ":" -> "/"
          [] param[k] = "(" -> "["
          [] param[k] = ")" -> "]"
          [] OTHER -> param[k]]

\* the python dict {}
EmptyDict == <<>>

\* d.update(e)
DictMerge(d, e) == [x \in DOMAIN d \cup DOMAIN e |-> IF x \in DOMAIN e THEN e[x] ELSE d[x]]

\* the template documents a component may be given
InputXmls == UNION {[S -> TemplateVals] : S \in SUBSET InPaths}
OutputXmls == UNION {[S -> TemplateVals] : S \in SUBSET OutPaths}

(***************************************************************************)
(* Partials documents.  Partials(file).get_partials() yields a dict from   *)
(* the XPath of an output ("of") to None or to a dict from the XPaths of   *)
(* inputs ("wrt") to a value.  An entry is a record: none tells None from  *)
(* a dict, wrt is the dict.                                                *)
(***************************************************************************)
NoneEntry == [none |-> TRUE, wrt |-> EmptyDict]
WrtEntry(d) == [none |-> FALSE, wrt |-> d]

\* the sets of inputs an output of a partials document names
WrtSets == {{}, {Elem("r") \o Elem("x")}, InPaths}

PartialsEntries(vals) == {NoneEntry} \cup {WrtEntry(d) : d \in UNION {[W -> vals] : W \in WrtSets}}

PartialsXmls == UNION {[O -> PartialsEntries(TemplateVals)] : O \in SUBSET OutPaths}

(***************************************************************************)
(* State.                                                                  *)
(***************************************************************************)
VARIABLES
    inputs_from_xml,    \* dict: parameter name -> template value
    outputs_from_xml,   \* dict: parameter name -> template value
    partials_from_xml,  \* dict: of XPath -> entry
    keep_files,         \* BOOLEAN
    base_file,          \* "None" or the name of the base file
    in_xml,             \* the document last given to set_inputs_from_xml()
    out_xml,            \* the document last given to set_outputs_from_xml()
    is_setup,           \* setup() has run
    inputs,             \* the framework's input vector (continuous and discrete)
    outputs,            \* the framework's output vector (continuous and discrete)
    declared,           \* pairs <<of, wrt>> given to declare_partials()
    fd,                 \* declare_partials('*', '*', method='fd') was called
    partials,           \* the framework's partials vector
    pc,                 \* "idle", "execute", "linearize", "done" or "raised"
    op,                 \* the method running or last run: "compute", "compute_partials"
    fs,                 \* the file system: file name -> [exists, data]
    call_in,            \* the file given to execute() or linearize() as its input
    log,                \* what the running call has done so far, in order
    err,                \* the exception the call raised, "" if none
    doc,                \* the document the discipline wrote in this call
    rm_failed,          \* the existing files whose os.remove() raised OSError
    written,            \* the files the adapter wrote in this call
    old,                \* the vectors and the base document when the call began
    group,              \* the Group: its subsystems and its connections
    indep               \* the call of xml_params_as_indep_vars(), once made

vars == <<inputs_from_xml, outputs_from_xml, partials_from_xml, keep_files, base_file,
          in_xml, out_xml, is_setup, inputs, outputs, declared, fd, partials,
          pc, op, fs, call_in, log, err, doc, rm_failed, written, old, group, indep>>

run_vars == <<pc, op, fs, call_in, log, err, doc, rm_failed, written, old>>
indep_vars == <<group, indep>>

config_vars == <<inputs_from_xml, outputs_from_xml, partials_from_xml, in_xml, out_xml>>
setup_vars == <<is_setup, inputs, outputs, declared, fd, partials>>

(***************************************************************************)
(* Files.                                                                  *)
(***************************************************************************)
\* the names generate_file_names() returns, and the base file
FileNames == {"in.xml", "out.xml", "partials.xml", "base.xml"}

NoFile == [exists |-> FALSE, data |-> EmptyDict]
File(d) == [exists |-> TRUE, data |-> d]

\* no file exists but the base file, if the component has one
InitFs(base, base_doc) ==
    [f \in FileNames |-> IF f = base /\ base # "None" THEN File(base_doc) ELSE NoFile]

InitOld == [outputs |-> EmptyDict, partials |-> EmptyDict, base |-> EmptyDict]

\* a Group with no subsystem and no connection
EmptyGroup == [systems |-> {}, connections |-> {}]

\* xml_params_as_indep_vars() has not been called
NoIndepCall ==
    [called |-> FALSE, params |-> <<>>, values |-> <<>>, has_aliases |-> FALSE,
     aliases |-> <<>>, error |-> "", stage |-> "", group0 |-> EmptyGroup]

(***************************************************************************)
(* Construction and configuration.                                         *)
(***************************************************************************)
\* mutant: the names drop the list index of the element
params_from_xml_noindex(xml) ==
    [n \in {xpath_to_param_noindex(x) : x \in DOMAIN xml} |->
        xml[CHOOSE x \in DOMAIN xml : xpath_to_param_noindex(x) = n]]

\* for xpath, value in xml_to_dict(xml).items(): d.update({xpath_to_param(xpath): value})
params_from_xml(xml) ==
    [n \in {xpath_to_param(x) : x \in DOMAIN xml} |->
        xml[CHOOSE x \in DOMAIN xml : xpath_to_param(x) = n]]

\* self.inputs_from_xml.clear(), then one update per element of the document
set_from_xml(current, xml) == params_from_xml(xml)

\* __init__() with no document, keep_files=False, base_file=None
Init ==
    /\ inputs_from_xml = EmptyDict
    /\ outputs_from_xml = EmptyDict
    /\ partials_from_xml = EmptyDict
    /\ keep_files = FALSE
    /\ base_file = "None"
    /\ in_xml = EmptyDict
    /\ out_xml = EmptyDict
    /\ is_setup = FALSE
    /\ inputs = EmptyDict
    /\ outputs = EmptyDict
    /\ declared = {}
    /\ fd = FALSE
    /\ partials = EmptyDict
    /\ pc = "idle"
    /\ op = "none"
    /\ fs = InitFs("None", EmptyDict)
    /\ call_in = "None"
    /\ log = <<>>
    /\ err = ""
    /\ doc = EmptyDict
    /\ rm_failed = {}
    /\ written = {}
    /\ old = InitOld
    /\ group = EmptyGroup
    /\ indep = NoIndepCall

set_inputs_from_xml(input_xml) ==
    /\ ~is_setup
    /\ inputs_from_xml' = set_from_xml(inputs_from_xml, input_xml)
    /\ in_xml' = input_xml
    /\ UNCHANGED <<outputs_from_xml, partials_from_xml, out_xml, keep_files, base_file>>
    /\ UNCHANGED setup_vars
    /\ UNCHANGED run_vars
    /\ UNCHANGED indep_vars

set_outputs_from_xml(output_xml) ==
    /\ ~is_setup
    /\ outputs_from_xml' = set_from_xml(outputs_from_xml, output_xml)
    /\ out_xml' = output_xml
    /\ UNCHANGED <<inputs_from_xml, partials_from_xml, in_xml, keep_files, base_file>>
    /\ UNCHANGED setup_vars
    /\ UNCHANGED run_vars
    /\ UNCHANGED indep_vars

\* given is FALSE when partial_xml is None
declare_partials_from_xml(given, partial_xml) ==
    /\ ~is_setup
    /\ partials_from_xml' = IF given THEN partial_xml ELSE EmptyDict
    /\ UNCHANGED <<inputs_from_xml, outputs_from_xml, in_xml, out_xml, keep_files, base_file>>
    /\ UNCHANGED setup_vars
    /\ UNCHANGED run_vars
    /\ UNCHANGED indep_vars

(***************************************************************************)
(* setup()                                                                 *)
(***************************************************************************)
\* mutant: finite differencing is declared whatever the metadata
uses_fd_always(pfx) == TRUE

\* the else branch of "if self.partials_from_xml"
uses_fd(pfx) == pfx = EmptyDict

\* the pairs of the declare_partials(of, [wrt, ..]) calls of setup()
declared_pairs(pfx) ==
    UNION {{<<xpath_to_param(of), xpath_to_param(w)>> : w \in DOMAIN pfx[of].wrt} :
           of \in {o \in DOMAIN pfx : ~pfx[o].none}}

\* the keys of the partials vector the framework hands to compute_partials()
partials_keys(ifx, ofx, pfx) ==
    IF uses_fd(pfx) THEN (DOMAIN ofx) \X (DOMAIN ifx) ELSE declared_pairs(pfx)

setup ==
    /\ ~is_setup
    /\ is_setup' = TRUE
    /\ inputs' = inputs_from_xml
    /\ outputs' = outputs_from_xml
    /\ declared' = IF partials_from_xml # EmptyDict THEN declared_pairs(partials_from_xml) ELSE {}
    /\ fd' = uses_fd(partials_from_xml)
    /\ partials' = [k \in partials_keys(inputs_from_xml, outputs_from_xml, partials_from_xml) |-> 0]
    /\ UNCHANGED <<keep_files, base_file>>
    /\ UNCHANGED config_vars
    /\ UNCHANGED run_vars
    /\ UNCHANGED indep_vars

Next ==
    \/ \E xml \in InputXmls : set_inputs_from_xml(xml)
    \/ \E xml \in OutputXmls : set_outputs_from_xml(xml)
    \/ \E given \in BOOLEAN, xml \in PartialsXmls : declare_partials_from_xml(given, xml)
    \/ setup

Spec == Init /\ [][Next]_vars

(***************************************************************************)
(* Helpers of compute() and compute_partials().                            *)
(***************************************************************************)
\* the document write_input_file() writes: one element per XML input that
\* is in the input vector, at param_to_xpath(param)
input_doc(ifx, vec) ==
    LET ps == DOMAIN ifx \cap DOMAIN vec
    IN  [x \in {param_to_xpath(q) : q \in ps} |->
            vec[CHOOSE q \in ps : param_to_xpath(q) = x]]

\* write_input_file() raises IndexError on list(self.inputs_from_xml)[0]
\* when the component has no XML input
write_input_raises(ifx) == ifx = EmptyDict

\* xml_merge(base, other): the elements of other are put into base
xml_merge(f, base, other) ==
    [f EXCEPT ![base] = File(DictMerge(f[base].data, f[other].data))]

\* os.remove(file): OSError when the file does not exist or cannot be deleted
os_remove(f, file, fails) ==
    IF f[file].exists /\ ~fails
    THEN [fs |-> [f EXCEPT ![file] = NoFile], raised |-> FALSE]
    ELSE [fs |-> f, raised |-> TRUE]

\* mutant: the OSError is not caught
try_remove_uncaught(f, file, fails) ==
    LET r == os_remove(f, file, fails)
    IN  [fs |-> r.fs, err |-> IF r.raised THEN "OSError" ELSE ""]

\* try: os.remove(file) / except OSError: pass
try_remove(f, file, fails) ==
    [fs |-> os_remove(f, file, fails).fs, err |-> ""]

\* the removal of an existing file failed
RemoveFailed(f, file, fails) == IF f[file].exists /\ fails THEN {file} ELSE {}

\* mutant: every element of the file whose name is in the output vector is
\* stored, an XML output or not
read_outputs_file_any(ofx, d, outs) ==
    [n \in DOMAIN outs |->
        IF \E x \in DOMAIN d : xpath_to_param(x) = n
        THEN d[CHOOSE x \in DOMAIN d : xpath_to_param(x) = n]
        ELSE outs[n]]

\* read_outputs_file(): every element of the file whose name is an XML
\* output and in the output vector is stored in the vector
read_outputs_file(ofx, d, outs) ==
    [n \in DOMAIN outs |->
        IF n \in DOMAIN ofx /\ \E x \in DOMAIN d : xpath_to_param(x) = n
        THEN d[CHOOSE x \in DOMAIN d : xpath_to_param(x) = n]
        ELSE outs[n]]

\* the inner loop of read_partials_file(): "of" is rebound to
\* xpath_to_param(of) in every iteration
RECURSIVE read_wrts(_, _, _, _)
read_wrts(of, wrts, todo, parts) ==
    IF todo = {} THEN parts
    ELSE LET w == CHOOSE v \in todo : TRUE
             of2 == xpath_to_param(of)
             k == <<of2, xpath_to_param(w)>>
         IN  read_wrts(of2, wrts, todo \ {w},
                       IF k \in DOMAIN parts THEN [parts EXCEPT ![k] = wrts[w]] ELSE parts)

\* the outer loop: wrts.items() raises AttributeError when wrts is None
RECURSIVE read_entries(_, _, _, _)
read_entries(order, d, i, parts) ==
    IF i > Len(order) THEN [partials |-> parts, err |-> ""]
    ELSE IF d[order[i]].none THEN [partials |-> parts, err |-> "AttributeError"]
    ELSE read_entries(order, d, i + 1,
                      read_wrts(order[i], d[order[i]].wrt, DOMAIN d[order[i]].wrt, parts))

\* mutant: only one wrt of every output is read
read_partials_file_first(order, d, parts) ==
    LET one(e) == IF e.none \/ e.wrt = EmptyDict THEN e
                  ELSE WrtEntry([w \in {CHOOSE v \in DOMAIN e.wrt : TRUE} |-> e.wrt[w]])
    IN  read_entries(order, [o \in DOMAIN d |-> one(d[o])], 1, parts)

\* read_partials_file(): order is the order of the outputs in the file
read_partials_file(order, d, parts) == read_entries(order, d, 1, parts)

\* mutant: the base file is never merged
merge_into_base_never(f, base, other) == f

\* "if self.base_file is not None: xml_merge(self.base_file, other)"
merge_into_base(f, base, other) ==
    IF base # "None" THEN xml_merge(f, base, other) ELSE f

\* the file compute() gives execute() as its input
exec_input(base) == IF base # "None" THEN base ELSE "in.xml"

\* the vectors the framework may pass: every variable at one value
Vectors(names) == {[n \in names |-> v] : v \in Vals}

\* the documents execute() may write
ExecuteDocs == UNION {[S -> {v}] : S \in SUBSET (OutPaths \cup {ForeignPath}), v \in Vals}

\* the documents linearize() may write, and the orders of their outputs
FileWrtSets == {{Elem("r") \o Elem("x")}, InPaths}
LinearizeDocs ==
    UNION {[O -> {NoneEntry} \cup {WrtEntry([w \in W |-> v]) : W \in FileWrtSets}] :
           O \in SUBSET OutPaths, v \in Vals}
Orders(S) == {q \in [1..Cardinality(S) -> S] : \A i, j \in DOMAIN q : q[i] = q[j] => i = j}

Snapshot == [outputs |-> outputs, partials |-> partials, base |-> fs["base.xml"].data]

(***************************************************************************)
(* compute()                                                               *)
(***************************************************************************)
\* compute() up to its call of execute()
compute_call(vec) ==
    /\ is_setup
    /\ pc = "idle"
    /\ LET has_in == inputs_from_xml # EmptyDict
           f1 == IF has_in
                 THEN [fs EXCEPT !["in.xml"] = File(input_doc(inputs_from_xml, vec))]
                 ELSE fs
           f2 == IF has_in THEN merge_into_base(f1, base_file, "in.xml") ELSE f1
       IN  /\ fs' = f2
           /\ written' = IF ~has_in THEN {}
                         ELSE IF base_file # "None" THEN {"in.xml", base_file}
                         ELSE {"in.xml"}
           /\ log' = (IF has_in THEN <<"write_input">> ELSE <<>>)
                      \o (IF has_in /\ base_file # "None" THEN <<"merge_input">> ELSE <<>>)
                      \o <<"execute">>
    /\ inputs' = vec
    /\ call_in' = exec_input(base_file)
    /\ pc' = "execute"
    /\ op' = "compute"
    /\ old' = Snapshot
    /\ err' = ""
    /\ doc' = EmptyDict
    /\ rm_failed' = {}
    /\ UNCHANGED <<keep_files, base_file, is_setup, outputs, declared, fd, partials>>
    /\ UNCHANGED config_vars
    /\ UNCHANGED indep_vars

\* execute() writes d to the output file and returns; compute() runs to its end
compute_return(d, fail_in, fail_out) ==
    /\ pc = "execute"
    /\ LET f1 == [fs EXCEPT !["out.xml"] = File(d)]
           f2 == merge_into_base(f1, base_file, "out.xml")
           r1 == IF ~keep_files THEN try_remove(f2, "in.xml", fail_in)
                 ELSE [fs |-> f2, err |-> ""]
           has_out == outputs_from_xml # EmptyDict
           r2 == IF has_out /\ ~keep_files THEN try_remove(r1.fs, "out.xml", fail_out)
                 ELSE [fs |-> r1.fs, err |-> ""]
           l1 == log \o (IF base_file # "None" THEN <<"merge_output">> ELSE <<>>)
                     \o (IF ~keep_files THEN <<"remove_input">> ELSE <<>>)
           l2 == l1 \o (IF has_out THEN <<"read_outputs">> ELSE <<>>)
                    \o (IF has_out /\ ~keep_files THEN <<"remove_output">> ELSE <<>>)
       IN  IF r1.err # ""
           THEN /\ fs' = r1.fs /\ err' = r1.err /\ pc' = "raised" /\ log' = l1
                /\ rm_failed' = RemoveFailed(f2, "in.xml", fail_in)
                /\ UNCHANGED outputs
           ELSE /\ fs' = r2.fs
                /\ err' = r2.err
                /\ pc' = IF r2.err # "" THEN "raised" ELSE "done"
                /\ log' = l2
                /\ rm_failed' = (IF ~keep_files THEN RemoveFailed(f2, "in.xml", fail_in) ELSE {})
                       \cup (IF has_out /\ ~keep_files
                             THEN RemoveFailed(r1.fs, "out.xml", fail_out) ELSE {})
                /\ outputs' = IF has_out
                              THEN read_outputs_file(outputs_from_xml, r1.fs["out.xml"].data, outputs)
                              ELSE outputs
    /\ doc' = d
    /\ UNCHANGED <<keep_files, base_file, is_setup, inputs, declared, fd, partials>>
    /\ UNCHANGED <<op, call_in, written, old>>
    /\ UNCHANGED config_vars
    /\ UNCHANGED indep_vars

(***************************************************************************)
(* compute_partials()                                                      *)
(***************************************************************************)
\* compute_partials() up to its call of linearize(), or to its end when the
\* component has no partials from XML or write_input_file() raises
compute_partials_call(vec) ==
    /\ is_setup
    /\ pc = "idle"
    /\ op' = "compute_partials"
    /\ inputs' = vec
    /\ old' = Snapshot
    /\ doc' = EmptyDict
    /\ rm_failed' = {}
    /\ IF partials_from_xml = EmptyDict
       THEN /\ pc' = "done" /\ err' = "" /\ log' = <<>> /\ written' = {}
            /\ call_in' = "None"
            /\ UNCHANGED fs
       ELSE IF write_input_raises(inputs_from_xml)
       THEN /\ pc' = "raised" /\ err' = "IndexError" /\ log' = <<>> /\ written' = {}
            /\ call_in' = "None"
            /\ UNCHANGED fs
       ELSE /\ pc' = "linearize" /\ err' = ""
            /\ fs' = [fs EXCEPT !["in.xml"] = File(input_doc(inputs_from_xml, vec))]
            /\ log' = <<"write_input", "linearize">>
            /\ written' = {"in.xml"}
            /\ call_in' = "in.xml"
    /\ UNCHANGED <<keep_files, base_file, is_setup, outputs, declared, fd, partials>>
    /\ UNCHANGED config_vars
    /\ UNCHANGED indep_vars

\* linearize() writes d, its outputs in the given order, to the partials
\* file and returns; compute_partials() runs to its end
linearize_return(d, order, fail_in, fail_partials) ==
    /\ pc = "linearize"
    /\ LET f1 == [fs EXCEPT !["partials.xml"] = File(d)]
           r1 == IF ~keep_files THEN try_remove(f1, "in.xml", fail_in)
                 ELSE [fs |-> f1, err |-> ""]
           rd == read_partials_file(order, r1.fs["partials.xml"].data, partials)
           r2 == IF ~keep_files THEN try_remove(r1.fs, "partials.xml", fail_partials)
                 ELSE [fs |-> r1.fs, err |-> ""]
           l1 == log \o (IF ~keep_files THEN <<"remove_input">> ELSE <<>>)
           l2 == l1 \o <<"read_partials">>
           l3 == l2 \o (IF ~keep_files THEN <<"remove_partials">> ELSE <<>>)
           rm1 == IF ~keep_files THEN RemoveFailed(f1, "in.xml", fail_in) ELSE {}
       IN  IF r1.err # ""
           THEN /\ fs' = r1.fs /\ err' = r1.err /\ pc' = "raised" /\ log' = l1
                /\ rm_failed' = rm1
                /\ UNCHANGED partials
           ELSE IF rd.err # ""
           THEN /\ fs' = r1.fs /\ err' = rd.err /\ pc' = "raised" /\ log' = l2
                /\ rm_failed' = rm1
                /\ partials' = rd.partials
           ELSE /\ fs' = r2.fs
                /\ err' = r2.err
                /\ pc' = IF r2.err # "" THEN "raised" ELSE "done"
                /\ log' = l3
                /\ rm_failed' = rm1 \cup (IF ~keep_files
                                          THEN RemoveFailed(r1.fs, "partials.xml", fail_partials)
                                          ELSE {})
                /\ partials' = rd.partials
    /\ doc' = d
    /\ UNCHANGED <<keep_files, base_file, is_setup, inputs, outputs, declared, fd>>
    /\ UNCHANGED <<op, call_in, written, old>>
    /\ UNCHANGED config_vars
    /\ UNCHANGED indep_vars

(***************************************************************************)
(* The component in use: constructed from its documents, set up, and then  *)
(* called once by the framework.                                           *)
(***************************************************************************)
\* what the base file may hold before the call
BaseDocs == {EmptyDict} \cup [InPaths \cup OutPaths -> TemplateVals]

\* __init__(input_xml, output_xml, partials_xml, data_folder, keep_files,
\* base_file) followed by setup()
\* the outputs a subclass adds itself, next to those generated from XML
OwnOutputs == {{}, {xpath_to_param(ForeignPath)}}

Constructed(ix, ox, px, keep, base, base_doc, own) ==
    /\ inputs_from_xml = set_from_xml(EmptyDict, ix)
    /\ outputs_from_xml = set_from_xml(EmptyDict, ox)
    /\ partials_from_xml = px
    /\ keep_files = keep
    /\ base_file = base
    /\ in_xml = ix
    /\ out_xml = ox
    /\ is_setup = TRUE
    /\ inputs = set_from_xml(EmptyDict, ix)
    /\ outputs = DictMerge([n \in own |-> 0], set_from_xml(EmptyDict, ox))
    /\ declared = IF px # EmptyDict THEN declared_pairs(px) ELSE {}
    /\ fd = uses_fd(px)
    /\ partials = [k \in partials_keys(set_from_xml(EmptyDict, ix),
                                       set_from_xml(EmptyDict, ox), px) |-> 0]
    /\ pc = "idle"
    /\ op = "none"
    /\ fs = InitFs(base, base_doc)
    /\ call_in = "None"
    /\ log = <<>>
    /\ err = ""
    /\ doc = EmptyDict
    /\ rm_failed = {}
    /\ written = {}
    /\ old = InitOld
    /\ group = EmptyGroup
    /\ indep = NoIndepCall

\* a component with XML outputs and no declared partials, or one with
\* declared partials and no base file
InitRun ==
    \E ix \in InputXmls, keep \in BOOLEAN :
        \/ \E ox \in OutputXmls, base \in {"None", "base.xml"}, bd \in BaseDocs,
                 own \in OwnOutputs :
               /\ base = "None" => bd = EmptyDict
               /\ Constructed(ix, ox, EmptyDict, keep, base, bd, own)
        \/ \E px \in PartialsXmls :
               Constructed(ix, EmptyDict, px, keep, "None", EmptyDict, {})

NextRun ==
    \/ \E vec \in Vectors(DOMAIN inputs) : compute_call(vec)
    \/ \E d \in ExecuteDocs, fail_in, fail_out \in BOOLEAN : compute_return(d, fail_in, fail_out)
    \/ \E vec \in Vectors(DOMAIN inputs) : compute_partials_call(vec)
    \/ \E d \in LinearizeDocs : \E order \in Orders(DOMAIN d), fail_in, fail_partials \in BOOLEAN :
           linearize_return(d, order, fail_in, fail_partials)

SpecRun == InitRun /\ [][NextRun]_vars

(***************************************************************************)
(* xml_params_as_indep_vars()                                              *)
(***************************************************************************)
\* the check of line 431: "" when it passes, else the exception it raises.
\* len(aliases) is evaluated when aliases is None, and only then.
length_check(params, values, has_aliases, aliases) ==
    IF Len(params) # Len(values) THEN "ValueError"
    ELSE IF ~has_aliases THEN "TypeError"
    ELSE ""

\* the loop of lines 434-436
params_check(params, ifx) ==
    IF \E i \in DOMAIN params : params[i] \notin DOMAIN ifx THEN "ValueError" ELSE ""

\* param_to_xpath(param).split('/')[-1].split('[')[0]
last_tag(param) ==
    LET x == param_to_xpath(param)
        slashes == {k \in DOMAIN x : x[k] = "/"}
        last == IF slashes = {} THEN 0 ELSE CHOOSE k \in slashes : \A j \in slashes : j <= k
        rest == SubSeq(x, last + 1, Len(x))
        opens == {k \in DOMAIN rest : rest[k] = "["}
        first == IF opens = {} THEN Len(rest) + 1
                 ELSE CHOOSE k \in opens : \A j \in opens : k <= j
    IN  SubSeq(rest, 1, first - 1)

\* group.add(alias, IndepVarComp(alias, val=value), promotes=[alias]) and
\* group.connect(alias, param)
group_add(g, alias, value, param) ==
    [systems |-> g.systems \cup {<<alias, value>>},
     connections |-> g.connections \cup {<<alias, param>>}]

\* the loop of lines 438-445, from index i on: aliases[index] raises
\* IndexError past the end of aliases
RECURSIVE add_indep_vars(_, _, _, _, _, _)
add_indep_vars(g, params, values, has_aliases, aliases, i) ==
    IF i > Len(params) THEN [group |-> g, error |-> ""]
    ELSE IF has_aliases /\ i > Len(aliases) THEN [group |-> g, error |-> "IndexError"]
    ELSE LET alias == IF has_aliases THEN aliases[i] ELSE <<"INDEP_">> \o last_tag(params[i])
         IN  add_indep_vars(group_add(g, alias, values[i], params[i]),
                            params, values, has_aliases, aliases, i + 1)

xml_params_as_indep_vars(params, values, has_aliases, aliases) ==
    /\ ~indep.called
    /\ LET e1 == length_check(params, values, has_aliases, aliases)
           e2 == params_check(params, inputs_from_xml)
           r == add_indep_vars(group, params, values, has_aliases, aliases, 1)
           call == [called |-> TRUE, params |-> params, values |-> values,
                    has_aliases |-> has_aliases, aliases |-> aliases, group0 |-> group]
       IN  IF e1 # ""
           THEN /\ indep' = call @@ [error |-> e1, stage |-> "lengths"]
                /\ UNCHANGED group
           ELSE IF e2 # ""
           THEN /\ indep' = call @@ [error |-> e2, stage |-> "params"]
                /\ UNCHANGED group
           ELSE /\ indep' = call @@ [error |-> r.error, stage |-> IF r.error # "" THEN "loop" ELSE ""]
                /\ group' = r.group
    /\ UNCHANGED <<keep_files, base_file>>
    /\ UNCHANGED config_vars
    /\ UNCHANGED setup_vars
    /\ UNCHANGED run_vars

\* the names a caller may give: the inputs of the templates and one unknown
ParamNames == {xpath_to_param(x) : x \in InPaths \cup {ForeignPath}}
AliasNames == {<<"a">>, <<"b">>}
ListsOf(S) == UNION {[1..n -> S] : n \in 0..MaxArgs}
ValueLists == {[i \in 1..n |-> v] : n \in 0..MaxArgs, v \in Vals}

\* a component constructed from an input document, and a group
InitIndep ==
    \E ix \in InputXmls, g \in {EmptyGroup, group_add(EmptyGroup, <<"a">>, 1, <<"other">>)} :
        /\ inputs_from_xml = set_from_xml(EmptyDict, ix)
        /\ outputs_from_xml = EmptyDict
        /\ partials_from_xml = EmptyDict
        /\ keep_files = FALSE
        /\ base_file = "None"
        /\ in_xml = ix
        /\ out_xml = EmptyDict
        /\ is_setup = FALSE
        /\ inputs = EmptyDict
        /\ outputs = EmptyDict
        /\ declared = {}
        /\ fd = FALSE
        /\ partials = EmptyDict
        /\ pc = "idle"
        /\ op = "none"
        /\ fs = InitFs("None", EmptyDict)
        /\ call_in = "None"
        /\ log = <<>>
        /\ err = ""
        /\ doc = EmptyDict
        /\ rm_failed = {}
        /\ written = {}
        /\ old = InitOld
        /\ group = g
        /\ indep = NoIndepCall

NextIndep ==
    /\ ~indep.called
    /\ \E params \in ListsOf(ParamNames), values \in ValueLists,
          has_aliases \in BOOLEAN, aliases \in ListsOf(AliasNames) :
           /\ ~has_aliases => aliases = <<>>
           /\ xml_params_as_indep_vars(params, values, has_aliases, aliases)

SpecIndep == InitIndep /\ [][NextIndep]_vars

(***************************************************************************)
(* Properties.                                                             *)
(***************************************************************************)
IndexedInPath == Elem("r") \o ElemAt("z", 1)

MetadataPairs(pfx) ==
    {k \in {xpath_to_param(o) : o \in OutPaths} \X {xpath_to_param(i) : i \in InPaths} :
        \E o \in DOMAIN pfx : /\ ~pfx[o].none
                               /\ \E w \in DOMAIN pfx[o].wrt :
                                      k = <<xpath_to_param(o), xpath_to_param(w)>>}

C2_Declarations ==
    /\ fd <=> partials_from_xml = EmptyDict
    /\ fd => declared = {}
    /\ ~fd => declared = MetadataPairs(partials_from_xml)

\* C2 as stated: after setup(), finite differencing is declared iff
\* partials_from_xml is empty, otherwise exactly the pairs of the metadata
\* are declared and finite differencing is not; and in every case one of
\* the two kinds of declaration is made.
C2_AlwaysSomeDeclaration ==
    is_setup => (C2_Declarations /\ (fd \/ declared # {}))

\* C2 as amended: after setup(), finite differencing is declared iff
\* partials_from_xml is empty, otherwise exactly the pairs of the metadata
\* (an output whose wrt is None or empty gives none) are declared and finite
\* differencing is not; a declaration is made whenever partials_from_xml is
\* empty or names a wrt for some output, and none otherwise.
C2_DeclarationsFromMetadata ==
    is_setup =>
        /\ C2_Declarations
        /\ (fd \/ declared # {}) <=>
               \/ partials_from_xml = EmptyDict
               \/ \E o \in DOMAIN partials_from_xml :
                      ~partials_from_xml[o].none /\ partials_from_xml[o].wrt # EmptyDict

C2_Witness ==
    /\ is_setup
    /\ ~fd
    /\ Cardinality(declared) >= 2
    /\ \E o \in DOMAIN partials_from_xml : partials_from_xml[o].none

TempFiles == {"in.xml", "out.xml", "partials.xml"}

\* C3: with keep_files False, when compute() or compute_partials() has
\* returned and no deletion failed, none of the temporary files of the call
\* exists.
C3_TempFilesRemoved ==
    (pc = "done" /\ ~keep_files /\ rm_failed = {}) => \A f \in TempFiles : ~fs[f].exists

\* C4: when compute() calls execute(), the file it passes as input exists
\* and was written by the adapter during this call.
C4_InputFileSupplied ==
    (pc = "execute") => (fs[call_in].exists /\ call_in \in written)

\* what read_outputs_file() is to leave in the output vector
ExpectedOutputs ==
    [n \in DOMAIN old.outputs |->
        IF n \in DOMAIN outputs_from_xml /\ param_to_xpath(n) \in DOMAIN doc
        THEN doc[param_to_xpath(n)] ELSE old.outputs[n]]

\* the document of linearize() has the pair k
InPartialsDoc(k) ==
    \E o \in DOMAIN doc : \E w \in DOMAIN doc[o].wrt :
        k = <<xpath_to_param(o), xpath_to_param(w)>>

PartialsDocValue(k) ==
    LET o == CHOOSE o \in DOMAIN doc : \E w \in DOMAIN doc[o].wrt :
                 k = <<xpath_to_param(o), xpath_to_param(w)>>
        w == CHOOSE w \in DOMAIN doc[o].wrt : k = <<xpath_to_param(o), xpath_to_param(w)>>
    IN  doc[o].wrt[w]

\* what read_partials_file() is to leave in the partials vector
ExpectedPartials ==
    [k \in DOMAIN old.partials |->
        IF InPartialsDoc(k) THEN PartialsDocValue(k) ELSE old.partials[k]]

\* C5: when the removal of a temporary file fails with OSError, compute()
\* and compute_partials() do not raise it: compute() returns with the
\* outputs of execute() in the output vector, and compute_partials() goes
\* on to read the partials file and returns with its partials in the
\* partials vector.
C5_DeleteErrorsSwallowed ==
    rm_failed # {} =>
        /\ err # "OSError"
        /\ op = "compute" => (pc = "done" /\ outputs = ExpectedOutputs)
        /\ op = "compute_partials" =>
               /\ "read_partials" \in {log[i] : i \in DOMAIN log}
               /\ pc = "done" \/ err = "AttributeError"
               /\ pc = "done" => partials = ExpectedPartials

C5_Witness ==
    /\ pc = "done"
    /\ op = "compute"
    /\ rm_failed = {"in.xml", "out.xml"}
    /\ outputs # old.outputs
    /\ outputs = ExpectedOutputs

\* C6: after compute_partials() of a component with partials from XML has
\* returned, every declared pair the partials file has holds the value of
\* the file, also when an output of the file has several wrt, and every
\* other pair of the partials vector is as before; pairs of the file that
\* are not declared are not added.
C6_PartialsReadBack ==
    (pc = "done" /\ op = "compute_partials" /\ partials_from_xml # EmptyDict) =>
        /\ DOMAIN partials = declared
        /\ \A k \in declared :
               partials[k] = IF InPartialsDoc(k) THEN PartialsDocValue(k) ELSE old.partials[k]

C6_Witness ==
    /\ pc = "done"
    /\ op = "compute_partials"
    /\ \E o \in DOMAIN doc :
           /\ Cardinality(DOMAIN doc[o].wrt) >= 2
           /\ \A w \in DOMAIN doc[o].wrt :
                  /\ <<xpath_to_param(o), xpath_to_param(w)>> \in declared
                  /\ partials[<<xpath_to_param(o), xpath_to_param(w)>>] = doc[o].wrt[w]
                  /\ doc[o].wrt[w] # 0
    /\ \E o \in DOMAIN doc : \E w \in DOMAIN doc[o].wrt :
           <<xpath_to_param(o), xpath_to_param(w)>> \notin declared

\* C7: with a base file, execute() is given the base file, which then holds
\* the input values of the call; and when compute() has returned the base
\* file holds every element of the output file of execute() and, for every
\* XML input the output file does not have, the input value of the call.
C7_BaseFileUpToDate ==
    (op = "compute" /\ base_file # "None") =>
        /\ call_in = base_file
        /\ pc = "execute" =>
               \A n \in DOMAIN inputs_from_xml :
                   /\ param_to_xpath(n) \in DOMAIN fs[base_file].data
                   /\ fs[base_file].data[param_to_xpath(n)] = inputs[n]
        /\ pc = "done" =>
               /\ \A x \in DOMAIN doc :
                      x \in DOMAIN fs[base_file].data /\ fs[base_file].data[x] = doc[x]
               /\ \A n \in DOMAIN inputs_from_xml :
                      param_to_xpath(n) \notin DOMAIN doc =>
                          /\ param_to_xpath(n) \in DOMAIN fs[base_file].data
                          /\ fs[base_file].data[param_to_xpath(n)] = inputs[n]
               /\ \A x \in DOMAIN old.base :
                      (x \notin DOMAIN doc /\ x \notin {param_to_xpath(n) : n \in DOMAIN inputs_from_xml})
                          => (x \in DOMAIN fs[base_file].data /\ fs[base_file].data[x] = old.base[x])

C7_Witness ==
    /\ pc = "done"
    /\ op = "compute"
    /\ base_file # "None"
    /\ Cardinality(DOMAIN inputs_from_xml) >= 2
    /\ Cardinality(DOMAIN doc) >= 2
    /\ old.base # EmptyDict
    /\ \A x \in DOMAIN doc : fs[base_file].data[x] = doc[x]

\* C8: xml_params_as_indep_vars() raises ValueError from its length check
\* whenever params, values and, when given, aliases are not all of one
\* length; with aliases None and params and values of one length the length
\* check raises nothing.
C8_LengthCheck ==
    indep.called =>
        LET mismatch == \/ Len(indep.params) # Len(indep.values)
                        \/ indep.has_aliases /\ Len(indep.aliases) # Len(indep.params)
        IN  /\ mismatch => (indep.error = "ValueError" /\ indep.stage = "lengths")
            /\ (~indep.has_aliases /\ Len(indep.params) = Len(indep.values))
                   => indep.stage # "lengths"

\* C9: when a param given to xml_params_as_indep_vars() is not in
\* inputs_from_xml, the call raises ValueError and leaves the group as it
\* was.
C9_UnknownParamRejected ==
    (indep.called /\ \E i \in DOMAIN indep.params : indep.params[i] \notin DOMAIN inputs_from_xml)
        => (indep.error = "ValueError" /\ group = indep.group0)

\* C10: set_inputs_from_xml() and set_outputs_from_xml() keep the
\* parameters generated from the documents given before: after a call the
\* dict holds the parameters it held and those of the new document.
C10_EarlierFilesKept ==
    [][/\ (\E xml \in InputXmls : set_inputs_from_xml(xml)) =>
           /\ DOMAIN inputs_from_xml \subseteq DOMAIN inputs_from_xml'
           /\ {xpath_to_param(x) : x \in DOMAIN in_xml'} \subseteq DOMAIN inputs_from_xml'
       /\ (\E xml \in OutputXmls : set_outputs_from_xml(xml)) =>
           /\ DOMAIN outputs_from_xml \subseteq DOMAIN outputs_from_xml'
           /\ {xpath_to_param(x) : x \in DOMAIN out_xml'} \subseteq DOMAIN outputs_from_xml']_vars

\* the places of an event in the log of the call
Positions(e) == {i \in DOMAIN log : log[i] = e}

\* every e1 of the log comes before every e2
Before(e1, e2) == \A i \in Positions(e1), j \in Positions(e2) : i < j

\* C11: compute() is a fixed sequence: the input file is written (when
\* there are XML inputs), then execute() is called exactly once, then the
\* output file is read into the outputs (when there are XML outputs), and
\* the output file is removed only after it was read; the outputs are not
\* touched before execute() has returned, and only names of
\* outputs_from_xml are updated.
C11_ComputeSequence ==
    (op = "compute" /\ pc \in {"execute", "done"}) =>
        /\ Cardinality(Positions("execute")) = 1
        /\ (Positions("write_input") # {}) <=> (inputs_from_xml # EmptyDict)
        /\ Cardinality(Positions("write_input")) <= 1
        /\ Before("write_input", "execute")
        /\ pc = "execute" =>
               /\ outputs = old.outputs
               /\ Positions("read_outputs") = {}
               /\ Positions("remove_output") = {}
               /\ log[Len(log)] = "execute"
        /\ pc = "done" =>
               /\ (Positions("read_outputs") # {}) <=> (outputs_from_xml # EmptyDict)
               /\ Cardinality(Positions("read_outputs")) <= 1
               /\ Before("execute", "read_outputs")
               /\ Positions("remove_output") # {} => Positions("read_outputs") # {}
               /\ Before("read_outputs", "remove_output")
               /\ DOMAIN outputs = DOMAIN old.outputs
               /\ \A n \in DOMAIN outputs :
                      IF n \in DOMAIN outputs_from_xml /\ param_to_xpath(n) \in DOMAIN doc
                      THEN outputs[n] = doc[param_to_xpath(n)]
                      ELSE outputs[n] = old.outputs[n]

\* a call with XML inputs and outputs and temporary files is over: the
\* output file held an XML output and an output the subclass added itself,
\* both at a new value
C11_Witness ==
    /\ op = "compute" /\ pc = "done" /\ ~keep_files
    /\ inputs_from_xml # EmptyDict
    /\ Positions("remove_output") # {}
    /\ xpath_to_param(ForeignPath) \in DOMAIN outputs \ DOMAIN outputs_from_xml
    /\ ForeignPath \in DOMAIN doc
    /\ doc[ForeignPath] # old.outputs[xpath_to_param(ForeignPath)]
    /\ \E n \in DOMAIN outputs_from_xml : outputs[n] # old.outputs[n]

====
